---- MODULE Spec2Model ----
(***************************************************************************)
(* Exam proctoring session: the frame loop and teardown of main() in       *)
(* src/main.py and the statistics / report generation of ReportGenerator   *)
(* in src/reporting/report_generator.py.                                   *)
(*                                                                         *)
(* Spec        : one session of main(), with the audio monitor as a second *)
(*               producer of violation records.                            *)
(* FairSpec    : Spec with weak fairness of the main thread.               *)
(* StatsSpec   : ReportGenerator applied to every bounded violation list.  *)
(* ReportSpec  : generate_report with every format value and every outcome *)
(*               of its collaborators, on lists whose timestamps may not   *)
(*               parse.                                                    *)
(* DisplaySpec : display_detection_results on snapshots around the eye     *)
(*               threshold.                                                *)
(***************************************************************************)
EXTENDS Integers, Sequences, FiniteSets, TLC

\* ------------------------------------------------------------------ bounds
\* frames the video source delivers before it runs dry
MaxFrames == 2
\* audio events the audio monitor raises in one session
MaxAudio == 1
\* length of the violation lists handed to the report generator in StatsSpec
MaxLen == 5
\* length of the violation lists handed to generate_report in ReportSpec
MaxReportLen == 2

\* ------------------------------------------------------------ the state
VARIABLES
    pc,               \* position of main() (line of src/main.py about to run)
    config,           \* config['detection']['audio_monitoring'], config['screen']['recording']
    audio_active,     \* audio_monitor.start() was called (there is no stop())
    audio_count,      \* events the audio monitor has raised
    screen,           \* screen_recorder: "idle" | "recording" | "stopped"
    video,            \* video_recorder:  "idle" | "recording" | "stopped"
    cap,              \* local cap: "unbound" | "open" | "closed" | "released"
    source_pos,       \* frames the video source has delivered to cap.read()
    frame_count,      \* local frame_count
    results,          \* local results (the snapshot of the current frame)
    pending,          \* violation types the for loop of lines 147-158 still handles
    timestamp,        \* local timestamp (line 154)
    violations,       \* the violation log of violation_logger
    frames_recorded,  \* frames handed to video_recorder.record_frame
    error,            \* the exception propagating out of the try block, or "none"
    clock,            \* datetime.now(), in microseconds since the session's midnight
    report_calls,     \* calls of report_generator.generate_report
    report_input,     \* local violations (line 169), the list handed to generate_report
    report_path,      \* local report_path (line 170)
    report,           \* everything generate_report computed for the list it was given
    overlay,          \* the text display_detection_results has drawn on the frame
    detector_calls    \* completed calls of each detector's method on the current frame

vars == <<pc, config, audio_active, audio_count, screen, video, cap, source_pos,
          frame_count, results, pending, timestamp, violations, frames_recorded,
          error, clock, report_calls, report_input, report_path, report,
                   overlay, detector_calls>>

\* ------------------------------------------------------- violation types
FrameTypes == {"FACE_DISAPPEARED", "MULTIPLE_FACES", "OBJECT_DETECTED", "MOUTH_MOVING"}

KnownTypes == FrameTypes \cup {"GAZE_AWAY", "AUDIO_DETECTED"}

\* a type string the severity table has no entry for
UnknownType == "TAB_SWITCHED"

AllTypes == KnownTypes \cup {UnknownType}

\* self.severity_map
severity_map ==
    [t \in KnownTypes |->
        CASE t = "FACE_DISAPPEARED" -> 1
          [] t = "GAZE_AWAY"        -> 2
          [] t = "MOUTH_MOVING"     -> 3
          [] t = "MULTIPLE_FACES"   -> 4
          [] t = "OBJECT_DETECTED"  -> 5
          [] t = "AUDIO_DETECTED"   -> 3]

\* ------------------------------------------------------------ timestamps
CompactFormat == "%Y%m%d_%H%M%S_%f"
DisplayFormat == "%Y-%m-%d %H:%M:%S"

\* datetime.strftime: the text the format produces for the clock value c.
\* The text is kept as its fields: which format laid it out, the HHMMSS digits
\* and the microsecond digits (%f), which the display format does not print.
strftime(c, fmt) ==
    LET s == c \div 1000000
    IN  [fmt |-> fmt,
         hms |-> ((s \div 3600) * 10000) + (((s \div 60) % 60) * 100) + (s % 60),
         f   |-> IF fmt = CompactFormat THEN (c % 1000000) ELSE 0]

\* datetime.strptime: ValueError unless the text has the layout of fmt.
strptime(text, fmt) ==
    IF text.fmt = fmt /\ ((text.hms \div 100) % 100) < 60 /\ (text.hms % 100) < 60
    THEN [ok |-> TRUE,
          value |-> (((text.hms \div 10000) * 3600) + (((text.hms \div 100) % 100) * 60)
                     + (text.hms % 100)) * 1000000 + text.f]
    ELSE [ok |-> FALSE, value |-> 0]

\* ------------------------------------------------- dictionaries and numbers
\* A Python dict, kept as the sequence of its items in insertion order.
\* d.get(k, default)
DictGet(d, k, default) ==
    IF \E i \in 1..Len(d) : d[i].key = k
    THEN LET i == CHOOSE j \in 1..Len(d) : d[j].key = k IN d[i].value
    ELSE default

\* d[k] = v : an existing key keeps its place, a new key goes last
DictSet(d, k, v) ==
    IF \E i \in 1..Len(d) : d[i].key = k
    THEN [i \in 1..Len(d) |-> IF d[i].key = k THEN [key |-> k, value |-> v] ELSE d[i]]
    ELSE Append(d, [key |-> k, value |-> v])

\* the items of a dict as a set: what == on two dicts compares
DictItems(d) == {d[i] : i \in 1..Len(d)}

\* max(a, b)
Max(a, b) == IF a >= b THEN a ELSE b

\* a / b on numbers: ZeroDivisionError when b is 0, else the quotient num/den
TrueDiv(a, b) == [raised |-> b = 0, num |-> a, den |-> b]

\* the int 0 as a quotient
IntZero == [raised |-> FALSE, num |-> 0, den |-> 1]

\* ------------------------------------------------------- ReportGenerator
\* the lookup with the weights of MULTIPLE_FACES and OBJECT_DETECTED exchanged
SeverityOfExchanged(type) ==
    IF type = "MULTIPLE_FACES" THEN 5
    ELSE IF type = "OBJECT_DETECTED" THEN 4
    ELSE IF type \in DOMAIN severity_map THEN severity_map[type] ELSE 1

\* the lookup with default 0: self.severity_map.get(type, 0)
SeverityOfDefaultZero(type) ==
    IF type \in DOMAIN severity_map THEN severity_map[type] ELSE 0

\* self.severity_map.get(type, 1)
SeverityOf(type) ==
    IF type \in DOMAIN severity_map THEN severity_map[type] ELSE 1

\* the average without the guard: stats['severity_score'] / stats['total']
AverageSeverityUnguarded(severity_score, total) == TrueDiv(severity_score, total)

\* stats['severity_score'] / stats['total'] if stats['total'] else 0
AverageSeverity(severity_score, total) ==
    IF total # 0 THEN TrueDiv(severity_score, total) ELSE IntZero

\* the loop body with timeline.insert(0, ...) in place of timeline.append(...)
StatsStepPrepend(stats, violation) ==
    [stats EXCEPT
        !.by_type = DictSet(@, violation.type, DictGet(@, violation.type, 0) + 1),
        !.timeline = <<[time     |-> violation.timestamp,
                        type     |-> violation.type,
                        severity |-> SeverityOf(violation.type)]>> \o @,
        !.severity_score = @ + SeverityOf(violation.type)]

\* the loop body with by_type[type] = 1 in place of the increment of line 83
StatsStepCountReset(stats, violation) ==
    [stats EXCEPT
        !.by_type = DictSet(@, violation.type, 1),
        !.timeline = Append(@, [time     |-> violation.timestamp,
                                type     |-> violation.type,
                                severity |-> SeverityOf(violation.type)]),
        !.severity_score = @ + SeverityOf(violation.type)]

\* one pass of the for loop of _calculate_stats over violation
StatsStep(stats, violation) ==
    [stats EXCEPT
        !.by_type = DictSet(@, violation.type, DictGet(@, violation.type, 0) + 1),
        !.timeline = Append(@, [time     |-> violation.timestamp,
                                type     |-> violation.type,
                                severity |-> SeverityOf(violation.type)]),
        !.severity_score = @ + SeverityOf(violation.type)]

RECURSIVE StatsLoop(_, _, _)
StatsLoop(stats, vs, i) ==
    IF i > Len(vs) THEN stats ELSE StatsLoop(StatsStep(stats, vs[i]), vs, i + 1)

\* ReportGenerator._calculate_stats
calculate_stats(vs) ==
    LET stats == StatsLoop([total |-> Len(vs), by_type |-> <<>>, timeline |-> <<>>,
                            severity_score |-> 0], vs, 1)
        avg == AverageSeverity(stats.severity_score, stats.total)
    IN  [total            |-> stats.total,
         by_type          |-> stats.by_type,
         timeline         |-> stats.timeline,
         severity_score   |-> stats.severity_score,
         average_severity |-> avg,
         raised           |-> avg.raised]

\* the score without the floor: 100 - stats['severity_score'] * 5
IntegrityScoreNoFloor(severity_score) == 100 - severity_score * 5

\* max(0, 100 - stats['severity_score'] * 5)
IntegrityScore(severity_score) == Max(0, 100 - severity_score * 5)

\* one pass of the for loop of _generate_timeline: the point plotted for v
TimelinePoint(v) ==
    [time     |-> strptime(v.timestamp, CompactFormat),
     severity |-> SeverityOf(v.type),
     label    |-> v.type]

\* the return value None of the chart methods
NoChart == [image |-> "None", marks |-> <<>>, raised |-> FALSE]

\* a chart method whose failure leaves the method as an exception
chart_reraise == [image |-> "None", marks |-> <<>>, raised |-> TRUE]

\* the except blocks of the chart methods (lines 118-120 and 148-150): the
\* failure is logged and the method returns None
chart_except == NoChart

\* the guard of a chart method that lets every list through, the empty one too
no_violations_never(vs) == FALSE

\* if not violations (lines 94 and 123): the chart methods return None at once
no_violations(vs) == vs = <<>>

\* a statement of the try block of _generate_timeline raises (lines 96-117):
\* strptime on a timestamp of another layout, or plt.savefig
timeline_fails(vs, savefig_ok) ==
    \/ \E i \in 1..Len(vs) : ~strptime(vs[i].timestamp, CompactFormat).ok
    \/ ~savefig_ok

\* _generate_timeline is left by an exception instead of a return
timeline_raises(vs, savefig_ok) ==
    ~no_violations(vs) /\ timeline_fails(vs, savefig_ok) /\ chart_except.raised

\* ReportGenerator._generate_timeline; savefig_ok: plt.savefig wrote the file
generate_timeline(vs, savefig_ok) ==
    IF no_violations(vs) THEN NoChart
    ELSE IF timeline_fails(vs, savefig_ok) THEN chart_except
    ELSE [image  |-> "timeline_{student_id}.png",
          marks  |-> [i \in 1..Len(vs) |-> TimelinePoint(vs[i])],
          raised |-> FALSE]

\* the for loop of _generate_heatmap: counts[v['type']] = counts.get(v['type'], 0) + 1
RECURSIVE CountLoop(_, _, _)
CountLoop(counts, vs, i) ==
    IF i > Len(vs) THEN counts
    ELSE CountLoop(DictSet(counts, vs[i].type, DictGet(counts, vs[i].type, 0) + 1),
                   vs, i + 1)

\* sorted(items, key=lambda x: x[1], reverse=True): stable, larger counts first
RECURSIVE SortedByCount(_, _, _)
SortedByCount(out, items, i) ==
    IF i > Len(items) THEN out
    ELSE LET x == items[i]
             before == {j \in 1..Len(out) : out[j].value >= x.value}
             k == Cardinality(before)
         IN  SortedByCount(SubSeq(out, 1, k) \o <<x>> \o SubSeq(out, k + 1, Len(out)),
                           items, i + 1)

\* _generate_heatmap is left by an exception instead of a return: plt.savefig
\* is the statement of its try block (lines 125-147) that can fail
heatmap_raises(vs, savefig_ok) ==
    ~no_violations(vs) /\ ~savefig_ok /\ chart_except.raised

\* ReportGenerator._generate_heatmap; savefig_ok: plt.savefig wrote the file
generate_heatmap(vs, savefig_ok) ==
    IF no_violations(vs) THEN NoChart
    ELSE LET counts == CountLoop(<<>>, vs, 1)
             ranked == SortedByCount(<<>>, counts, 1)
             bars == [i \in 1..Len(ranked) |->
                        [type  |-> ranked[i].key,
                         width |-> ranked[i].value,
                         color |-> TrueDiv(SeverityOf(ranked[i].key), 5)]]
         IN  IF counts = <<>> THEN NoChart
             ELSE IF ~savefig_ok THEN chart_except
             ELSE [image |-> "heatmap_{student_id}.png", marks |-> bars,
                   raised |-> FALSE]

\* str(output_format).lower() on the format values callers pass
PdfConfigObject == "<pdfkit.configuration.Configuration object>"

Lower(output_format) ==
    CASE output_format = "PDF"  -> "pdf"
      [] output_format = "HTML" -> "html"
      [] output_format = PdfConfigObject -> "<pdfkit.configuration.configuration object>"
      [] OTHER -> output_format

\* student_info of main()
student_info == [id |-> "STUDENT_001", name |-> "John Doe",
                 exam |-> "Final Examination", course |-> "Computer Science 101"]

\* what the collaborators of generate_report do in one call: whether plt.savefig
\* writes each chart, the template renders, and the document is written
ReportIO == [timeline_ok : BOOLEAN, heatmap_ok : BOOLEAN,
             render_ok : BOOLEAN, export_ok : BOOLEAN]

AllOk == [timeline_ok |-> TRUE, heatmap_ok |-> TRUE, render_ok |-> TRUE, export_ok |-> TRUE]

\* the first exception a step inside the try block of generate_report raises
\* (lines 36-74), "none" when every step returns: the statistics, the two chart
\* methods, the template (lines 53-54), pdfkit.from_string or open().write
\* (lines 60-71)
ReportException(vs, io) ==
    IF calculate_stats(vs).raised THEN "ZeroDivisionError"
    ELSE IF timeline_raises(vs, io.timeline_ok) THEN "ValueError"
    ELSE IF heatmap_raises(vs, io.heatmap_ok) THEN "ValueError"
    ELSE IF ~io.render_ok THEN "TemplateError"
    ELSE IF ~io.export_ok THEN "OSError"
    ELSE "none"

\* a handler that catches the file and conversion errors only
except_OSError(exc) == exc = "OSError"

\* except Exception (line 76): every exception the steps raise is an Exception
except_Exception(exc) ==
    exc \in {"ZeroDivisionError", "ValueError", "TemplateError", "OSError"}

\* the value generate_report returns (lines 74 and 78): the path of the written
\* document, or None (ok = FALSE) when a step inside the try block raised
report_return(student, vs, output_format, now, io) ==
    LET exc == ReportException(vs, io)
    IN  [ok      |-> exc = "none",
         raised  |-> exc # "none" /\ ~except_Exception(exc),
         student |-> student.id,
         stamp   |-> strftime(now, "%Y%m%d_%H%M%S"),
         ext     |-> Lower(output_format)]

\* ReportGenerator.generate_report: the return value (path), the statistics, the
\* charts and the report_data handed to the template
generate_report(student, vs, output_format, now, io) ==
    LET stats == calculate_stats(vs)
        timeline == generate_timeline(vs, io.timeline_ok)
        heatmap == generate_heatmap(vs, io.heatmap_ok)
    IN  [path |-> report_return(student, vs, output_format, now, io),
         output_format |-> output_format,
         io |-> io,
         stats |-> [total            |-> stats.total,
                    by_type          |-> stats.by_type,
                    timeline         |-> stats.timeline,
                    severity_score   |-> stats.severity_score,
                    average_severity |-> stats.average_severity,
                    integrity_score  |-> IntegrityScore(stats.severity_score),
                    raised           |-> stats.raised],
         violations     |-> vs,
         timeline_chart |-> timeline,
         heatmap_chart  |-> heatmap,
         timeline_image |-> timeline.image,
         heatmap_image  |-> heatmap.image,
         has_images     |-> (timeline.image # "None" \/ heatmap.image # "None"),
         chart_files    |-> {timeline.image, heatmap.image} \ {"None"},
         branch         |-> IF Lower(output_format) = "pdf" THEN "pdfkit.from_string"
                            ELSE "open().write"]

\* report before generate_report has been called
NoReport == [generated |-> FALSE]

\* report_path before line 170 has run
NoPath == [ok |-> FALSE, raised |-> FALSE, student |-> "unset", stamp |-> strftime(0, "%Y%m%d_%H%M%S"),
           ext |-> "unset"]

\* ------------------------------------------------------------ main()
\* the snapshots the detectors can produce for one frame (lines 123-137): every
\* combination of the four fields the violation conditions read. gaze_direction
\* and eye_ratio feed only the overlay and stay at their values of lines 125-126
\* (eye_ratio in hundredths).
Snapshots ==
    [face_present : BOOLEAN, gaze_direction : {"Center"}, eye_ratio : {30},
     mouth_moving : BOOLEAN, multiple_faces : BOOLEAN, objects_detected : BOOLEAN]

\* results between two frames
NoResults == [frame |-> "none"]

\* timestamp before line 154 has run
NoTimestamp == [fmt |-> "unset", hms |-> 0, f |-> 0]

\* the threshold 0.25 of line 40, in hundredths like eye_ratio
EyeThreshold == 25

\* the label of line 40 with the comparison >= in place of >
EyesLabelNonStrict(eye_ratio) == IF eye_ratio >= EyeThreshold THEN "Open" ELSE "Closed"

\* 'Open' if results['eye_ratio'] > 0.25 else 'Closed' (line 40)
EyesLabel(eye_ratio) == IF eye_ratio > EyeThreshold THEN "Open" ELSE "Closed"

\* display_detection_results (lines 33-59): the text put on the frame
display_detection_results(r) ==
    [status_items |->
         << <<"Face", IF r.face_present THEN "Present" ELSE "Absent">>,
            <<"Gaze", r.gaze_direction>>,
            <<"Eyes", EyesLabel(r.eye_ratio)>>,
            <<"Mouth", IF r.mouth_moving THEN "Moving" ELSE "Still">> >>,
     alert_items |->
         (IF r.multiple_faces THEN <<"Multiple Faces Detected!">> ELSE <<>>)
         \o (IF r.objects_detected THEN <<"Suspicious Object Detected!">> ELSE <<>>),
     timestamp |-> r.timestamp]

\* the frame before display_detection_results has written on it
NoOverlay == [status_items |-> <<>>, alert_items |-> <<>>, timestamp |-> NoTimestamp]

\* the detector methods main() calls on a frame, in the order of lines 124-137
DetectorMethods ==
    <<"detect_face", "track_eyes", "monitor_mouth", "detect_multiple_faces",
      "detect_objects">>

DetectorPcs == {DetectorMethods[i] : i \in 1..Len(DetectorMethods)}

\* detector_calls when a frame has just been read
NoCalls == [d \in DetectorPcs |-> 0]

\* the loop body with the violation check moved before the last two detector
\* calls
after_detector_early_check(method) ==
    CASE method = "detect_face"           -> "track_eyes"
      [] method = "track_eyes"            -> "monitor_mouth"
      [] method = "monitor_mouth"         -> "classify"
      [] method = "detect_multiple_faces" -> "detect_objects"
      [] method = "detect_objects"        -> "classify"

\* the statement that follows each detector call (lines 124-140)
after_detector(method) ==
    CASE method = "detect_face"           -> "track_eyes"
      [] method = "track_eyes"            -> "monitor_mouth"
      [] method = "monitor_mouth"         -> "detect_multiple_faces"
      [] method = "detect_multiple_faces" -> "detect_objects"
      [] method = "detect_objects"        -> "classify"

\* violations_to_check with the first two entries exchanged
violations_to_check_reordered(r) ==
    << [type |-> "MULTIPLE_FACES",   condition |-> r.multiple_faces],
       [type |-> "FACE_DISAPPEARED", condition |-> ~r.face_present],
       [type |-> "OBJECT_DETECTED",  condition |-> r.objects_detected],
       [type |-> "MOUTH_MOVING",     condition |-> r.mouth_moving] >>

\* violations_to_check (lines 140-145)
violations_to_check(r) ==
    << [type |-> "FACE_DISAPPEARED", condition |-> ~r.face_present],
       [type |-> "MULTIPLE_FACES",   condition |-> r.multiple_faces],
       [type |-> "OBJECT_DETECTED",  condition |-> r.objects_detected],
       [type |-> "MOUTH_MOVING",     condition |-> r.mouth_moving] >>

\* the for loop without the break of line 158: every true condition is handled
RECURSIVE HandledViolationsNoBreak(_, _)
HandledViolationsNoBreak(checks, i) ==
    IF i > Len(checks) THEN <<>>
    ELSE IF checks[i].condition
         THEN <<checks[i].type>> \o HandledViolationsNoBreak(checks, i + 1)
    ELSE HandledViolationsNoBreak(checks, i + 1)

\* the for loop of lines 147-158: the types whose body runs, in order; the break
\* of line 158 ends the loop after the first one
RECURSIVE HandledViolations(_, _)
HandledViolations(checks, i) ==
    IF i > Len(checks) THEN <<>>
    ELSE IF checks[i].condition THEN <<checks[i].type>>
    ELSE HandledViolations(checks, i + 1)

\* pcs of the try block before the loop, of the loop, and of the finally block
SetupPcs == {"screen_start", "init_detectors", "video_start", "open_cap"}
LoopPcs == {"read", "classify", "speak", "capture", "log", "display", "waitkey"}
           \cup DetectorPcs
TeardownPcs == {"report", "screen_stop", "video_stop", "release"}

Init ==
    /\ pc = "audio_start"
    /\ config \in [audio_monitoring : BOOLEAN, screen_recording : BOOLEAN]
    /\ audio_active = FALSE
    /\ audio_count = 0
    /\ screen = "idle"
    /\ video = "idle"
    /\ cap = "unbound"
    /\ source_pos = 0
    /\ frame_count = 0
    /\ results = NoResults
    /\ pending = <<>>
    /\ timestamp = NoTimestamp
    /\ violations = <<>>
    /\ frames_recorded = 0
    /\ error = "none"
    /\ clock = 0
    /\ report_calls = 0
    /\ report_input = <<>>
    /\ report_path = NoPath
    /\ report = NoReport
    /\ overlay = NoOverlay
    /\ detector_calls = NoCalls

\* lines 89-90
StartAudioMonitor ==
    /\ pc = "audio_start"
    /\ audio_active' = config.audio_monitoring
    /\ pc' = "screen_start"
    /\ UNCHANGED <<config, audio_count, screen, video, cap, source_pos, frame_count,
                   results, pending, timestamp, violations, frames_recorded, error,
                   clock, report_calls, report_input, report_path, report,
                   overlay, detector_calls>>

\* lines 93-94
StartScreenRecording ==
    /\ pc = "screen_start"
    /\ screen' = IF config.screen_recording THEN "recording" ELSE screen
    /\ pc' = "init_detectors"
    /\ UNCHANGED <<config, audio_active, audio_count, video, cap, source_pos,
                   frame_count, results, pending, timestamp, violations,
                   frames_recorded, error, clock, report_calls, report_input, report_path, report,
                   overlay, detector_calls>>

\* lines 97-107
InitDetectors ==
    /\ pc = "init_detectors"
    /\ pc' = "video_start"
    /\ UNCHANGED <<config, audio_active, audio_count, screen, video, cap, source_pos,
                   frame_count, results, pending, timestamp, violations,
                   frames_recorded, error, clock, report_calls, report_input, report_path, report,
                   overlay, detector_calls>>

\* line 109
StartVideoRecording ==
    /\ pc = "video_start"
    /\ video' = "recording"
    /\ pc' = "open_cap"
    /\ UNCHANGED <<config, audio_active, audio_count, screen, cap, source_pos,
                   frame_count, results, pending, timestamp, violations,
                   frames_recorded, error, clock, report_calls, report_input, report_path, report,
                   overlay, detector_calls>>

\* lines 110-114: the device opens or not (cap.isOpened())
OpenCapture ==
    /\ pc = "open_cap"
    /\ cap' \in {"open", "closed"}
    /\ frame_count' = 0
    /\ pc' = "read"
    /\ UNCHANGED <<config, audio_active, audio_count, screen, video, source_pos,
                   results, pending, timestamp, violations, frames_recorded, error,
                   clock, report_calls, report_input, report_path, report,
                   overlay, detector_calls>>

\* lines 93-109 inside try: start_recording or a detector constructor raises
\* before cap is assigned; control passes to the finally block
SetupError ==
    /\ pc \in {"screen_start", "init_detectors", "video_start"}
    /\ error' = "setup"
    /\ pc' = "report"
    /\ UNCHANGED <<config, audio_active, audio_count, screen, video, cap, source_pos,
                   frame_count, results, pending, timestamp, violations,
                   frames_recorded, clock, report_calls, report_input, report_path, report,
                   overlay, detector_calls>>

\* lines 116-118, ret is True: the source delivers the next frame
ReadFrame ==
    /\ pc = "read"
    /\ cap = "open"
    /\ source_pos < MaxFrames
    /\ source_pos' = source_pos + 1
    /\ clock' = clock + 600000
    /\ detector_calls' = NoCalls
    /\ pc' = "detect_face"
    /\ UNCHANGED <<config, audio_active, audio_count, screen, video, cap, frame_count,
                   results, pending, timestamp, violations, frames_recorded, error,
                   report_calls, report_input, report_path, report, overlay>>

\* lines 116-118, ret is False: the loop ends by break
ReadNoFrame ==
    /\ pc = "read"
    /\ pc' = "report"
    /\ UNCHANGED <<config, audio_active, audio_count, screen, video, cap, source_pos,
                   frame_count, results, pending, timestamp, violations,
                   frames_recorded, error, clock, report_calls, report_input, report_path, report,
                   overlay, detector_calls>>

\* lines 121-131: detectors[0].detect_face returns and results is created, the
\* other fields at their defaults
DetectFace ==
    /\ pc = "detect_face"
    /\ \E s \in Snapshots :
         results' = [face_present     |-> s.face_present,
                     gaze_direction   |-> "Center",
                     eye_ratio        |-> 30,
                     mouth_moving     |-> FALSE,
                     multiple_faces   |-> FALSE,
                     objects_detected |-> FALSE,
                     timestamp        |-> strftime(clock, DisplayFormat)]
    /\ detector_calls' = [detector_calls EXCEPT !["detect_face"] = @ + 1]
    /\ pc' = after_detector("detect_face")
    /\ UNCHANGED <<config, audio_active, audio_count, screen, video, cap, source_pos,
                   frame_count, pending, timestamp, violations, frames_recorded, error,
                   clock, report_calls, report_input, report_path, report, overlay>>

\* line 134: detectors[1].track_eyes returns
TrackEyes ==
    /\ pc = "track_eyes"
    /\ \E s \in Snapshots :
         results' = [results EXCEPT !.gaze_direction = s.gaze_direction,
                                    !.eye_ratio = s.eye_ratio]
    /\ detector_calls' = [detector_calls EXCEPT !["track_eyes"] = @ + 1]
    /\ pc' = after_detector("track_eyes")
    /\ UNCHANGED <<config, audio_active, audio_count, screen, video, cap, source_pos,
                   frame_count, pending, timestamp, violations, frames_recorded, error,
                   clock, report_calls, report_input, report_path, report, overlay>>

\* line 135: detectors[2].monitor_mouth returns
MonitorMouth ==
    /\ pc = "monitor_mouth"
    /\ \E s \in Snapshots : results' = [results EXCEPT !.mouth_moving = s.mouth_moving]
    /\ detector_calls' = [detector_calls EXCEPT !["monitor_mouth"] = @ + 1]
    /\ pc' = after_detector("monitor_mouth")
    /\ UNCHANGED <<config, audio_active, audio_count, screen, video, cap, source_pos,
                   frame_count, pending, timestamp, violations, frames_recorded, error,
                   clock, report_calls, report_input, report_path, report, overlay>>

\* line 136: detectors[3].detect_multiple_faces returns
DetectMultipleFaces ==
    /\ pc = "detect_multiple_faces"
    /\ \E s \in Snapshots :
         results' = [results EXCEPT !.multiple_faces = s.multiple_faces]
    /\ detector_calls' = [detector_calls EXCEPT !["detect_multiple_faces"] = @ + 1]
    /\ pc' = after_detector("detect_multiple_faces")
    /\ UNCHANGED <<config, audio_active, audio_count, screen, video, cap, source_pos,
                   frame_count, pending, timestamp, violations, frames_recorded, error,
                   clock, report_calls, report_input, report_path, report, overlay>>

\* line 137: detectors[4].detect_objects returns
DetectObjects ==
    /\ pc = "detect_objects"
    /\ \E s \in Snapshots :
         results' = [results EXCEPT !.objects_detected = s.objects_detected]
    /\ detector_calls' = [detector_calls EXCEPT !["detect_objects"] = @ + 1]
    /\ pc' = after_detector("detect_objects")
    /\ UNCHANGED <<config, audio_active, audio_count, screen, video, cap, source_pos,
                   frame_count, pending, timestamp, violations, frames_recorded, error,
                   clock, report_calls, report_input, report_path, report, overlay>>

\* lines 140-148: the violation conditions are read from results and the for
\* loop picks what to handle
Classify ==
    /\ pc = "classify"
    /\ pending' = HandledViolations(violations_to_check(results), 1)
    /\ pc' = IF pending' = <<>> THEN "display" ELSE "speak"
    /\ UNCHANGED <<config, audio_active, audio_count, screen, video, cap, source_pos,
                   frame_count, results, timestamp, violations, frames_recorded, error,
                   clock, report_calls, report_input, report_path, report,
                   overlay, detector_calls>>

\* a detector error that leaves main() without running the finally block
DetectorErrorSkipsFinally ==
    /\ pc \in DetectorPcs
    /\ detector_calls' = NoCalls
    /\ results' = NoResults
    /\ error' = "detector"
    /\ pc' = "exit"
    /\ UNCHANGED <<config, audio_active, audio_count, screen, video, cap, source_pos,
                   frame_count, pending, timestamp, violations, frames_recorded, clock,
                   report_calls, report_input, report_path, report, overlay>>

\* lines 124-137: a detector call raises; nothing in the loop catches it. The
\* frame is abandoned: results is not read again and there is no current frame
\* whose calls detector_calls counts.
DetectorError ==
    /\ pc \in DetectorPcs
    /\ detector_calls' = NoCalls
    /\ results' = NoResults
    /\ error' = "detector"
    /\ pc' = "report"
    /\ UNCHANGED <<config, audio_active, audio_count, screen, video, cap, source_pos,
                   frame_count, pending, timestamp, violations, frames_recorded, clock,
                   report_calls, report_input, report_path, report, overlay>>

\* lines 150-152: alert_system.speak_alert returns
SpeakAlert ==
    /\ pc = "speak"
    /\ pc' = "capture"
    /\ UNCHANGED <<config, audio_active, audio_count, screen, video, cap, source_pos,
                   frame_count, results, pending, timestamp, violations,
                   frames_recorded, error, clock, report_calls, report_input, report_path, report,
                   overlay, detector_calls>>

\* lines 150-152: alert_system.speak_alert raises; nothing in the loop catches it.
\* (results and timestamp are not read again once the loop is left.)
SpeakAlertFails ==
    /\ pc = "speak"
    /\ error' = "tts"
    /\ pc' = "report"
    /\ results' = NoResults
    /\ UNCHANGED <<config, audio_active, audio_count, screen, video, cap, source_pos,
                   frame_count, pending, timestamp, violations,
                   frames_recorded, clock, report_calls, report_input, report_path, report,
                   overlay, detector_calls>>

\* lines 154-155: violation_capturer.capture_violation returns
CaptureViolation ==
    /\ pc = "capture"
    /\ timestamp' = strftime(clock, CompactFormat)
    /\ pc' = "log"
    /\ UNCHANGED <<config, audio_active, audio_count, screen, video, cap, source_pos,
                   frame_count, results, pending, violations, frames_recorded, error,
                   clock, report_calls, report_input, report_path, report,
                   overlay, detector_calls>>

\* lines 154-155: violation_capturer.capture_violation raises
CaptureViolationFails ==
    /\ pc = "capture"
    /\ timestamp' = NoTimestamp
    /\ results' = NoResults
    /\ error' = "capture"
    /\ pc' = "report"
    /\ UNCHANGED <<config, audio_active, audio_count, screen, video, cap, source_pos,
                   frame_count, pending, violations, frames_recorded, clock,
                   report_calls, report_input, report_path, report,
                   overlay, detector_calls>>

\* the record violation_logger.log_violation appends; frame stands for the
\* snapshot stored under details['frame']
ViolationRecord(type, ts, frame) ==
    [type |-> type, timestamp |-> ts, duration |-> "5+ seconds", frame |-> frame]

\* lines 156-158
LogViolation ==
    /\ pc = "log"
    /\ violations' = Append(violations, ViolationRecord(Head(pending), timestamp, source_pos))
    /\ pending' = Tail(pending)
    /\ pc' = IF pending' = <<>> THEN "display" ELSE "speak"
    /\ UNCHANGED <<config, audio_active, audio_count, screen, video, cap, source_pos,
                   frame_count, results, timestamp, frames_recorded, error, clock,
                   report_calls, report_input, report_path, report,
                   overlay, detector_calls>>

\* lines 160-162
RecordFrame ==
    /\ pc = "display"
    /\ overlay' = display_detection_results(results)
    /\ frames_recorded' = frames_recorded + 1
    /\ pc' = "waitkey"
    /\ UNCHANGED <<config, audio_active, audio_count, screen, video, cap, source_pos,
                   frame_count, results, pending, timestamp, violations, error, clock,
                   report_calls, report_input, report_path, report, detector_calls>>

\* lines 164-165: the operator pressed q
WaitKeyQuit ==
    /\ pc = "waitkey"
    /\ pc' = "report"
    /\ results' = NoResults
    /\ timestamp' = NoTimestamp
    /\ overlay' = NoOverlay
    /\ UNCHANGED <<config, audio_active, audio_count, screen, video, cap, source_pos,
                   frame_count, pending, violations, frames_recorded, error, clock,
                   report_calls, report_input, report_path, report, detector_calls>>

\* lines 164-166: no quit key; results and timestamp are reassigned before their
\* next use
WaitKeyContinue ==
    /\ pc = "waitkey"
    /\ frame_count' = frame_count + 1
    /\ pc' = "read"
    /\ results' = NoResults
    /\ timestamp' = NoTimestamp
    /\ overlay' = NoOverlay
    /\ UNCHANGED <<config, audio_active, audio_count, screen, video, cap, source_pos,
                   pending, violations, frames_recorded, error, clock, report_calls,
                   report_input, report_path, report, detector_calls>>

\* the format argument main() passes: pdf_config (line 170)
MainOutputFormat == PdfConfigObject

\* lines 169-171
GenerateReport ==
    /\ pc = "report"
    /\ report_input' = violations
    /\ \E io \in ReportIO :
         report_path' = report_return(student_info, violations, MainOutputFormat,
                                      clock, io)
    /\ report_calls' = report_calls + 1
    /\ pc' = IF report_path'.raised THEN "crashed" ELSE "screen_stop"
    /\ error' = IF report_path'.raised THEN "report" ELSE error
    /\ UNCHANGED <<config, audio_active, audio_count, screen, video, cap, source_pos,
                   frame_count, results, pending, timestamp, violations,
                   frames_recorded, clock, report,
                   overlay, detector_calls>>

\* lines 173-175
StopScreenRecording ==
    /\ pc = "screen_stop"
    /\ screen' = IF config.screen_recording THEN "stopped" ELSE screen
    /\ pc' = "video_stop"
    /\ UNCHANGED <<config, audio_active, audio_count, video, cap, source_pos,
                   frame_count, results, pending, timestamp, violations,
                   frames_recorded, error, clock, report_calls, report_input, report_path, report,
                   overlay, detector_calls>>

\* lines 177-178
StopVideoRecording ==
    /\ pc = "video_stop"
    /\ video' = "stopped"
    /\ pc' = "release"
    /\ UNCHANGED <<config, audio_active, audio_count, screen, cap, source_pos,
                   frame_count, results, pending, timestamp, violations,
                   frames_recorded, error, clock, report_calls, report_input, report_path, report,
                   overlay, detector_calls>>

\* lines 180-182 with cap assigned
ReleaseCapture ==
    /\ pc = "release"
    /\ cap # "unbound"
    /\ cap' = IF cap = "open" THEN "released" ELSE cap
    /\ pc' = "exit"
    /\ UNCHANGED <<config, audio_active, audio_count, screen, video, source_pos,
                   frame_count, results, pending, timestamp, violations,
                   frames_recorded, error, clock, report_calls, report_input, report_path, report,
                   overlay, detector_calls>>

\* line 180 with cap never assigned: cap.isOpened() raises UnboundLocalError
ReleaseUnbound ==
    /\ pc = "release"
    /\ cap = "unbound"
    /\ error' = "UnboundLocalError"
    /\ pc' = "crashed"
    /\ UNCHANGED <<config, audio_active, audio_count, screen, video, cap, source_pos,
                   frame_count, results, pending, timestamp, violations,
                   frames_recorded, clock, report_calls, report_input, report_path, report,
                   overlay, detector_calls>>

\* the audio monitor's thread: an audio event is appended to the violation log
AudioDetected ==
    /\ audio_active
    /\ audio_count < MaxAudio
    /\ audio_count' = audio_count + 1
    /\ violations' = Append(violations,
                            ViolationRecord("AUDIO_DETECTED", strftime(clock, CompactFormat), 0))
    /\ UNCHANGED <<pc, config, audio_active, screen, video, cap, source_pos,
                   frame_count, results, pending, timestamp, frames_recorded, error,
                   clock, report_calls, report_input, report_path, report,
                   overlay, detector_calls>>

\* the steps of main()
Main ==
    \/ StartAudioMonitor \/ StartScreenRecording \/ InitDetectors
    \/ StartVideoRecording \/ OpenCapture \/ SetupError
    \/ ReadFrame \/ ReadNoFrame \/ DetectFace \/ TrackEyes \/ MonitorMouth
    \/ DetectMultipleFaces \/ DetectObjects \/ Classify \/ DetectorError
    \/ SpeakAlert \/ SpeakAlertFails \/ CaptureViolation \/ CaptureViolationFails
    \/ LogViolation \/ RecordFrame \/ WaitKeyQuit \/ WaitKeyContinue
    \/ GenerateReport \/ StopScreenRecording \/ StopVideoRecording
    \/ ReleaseCapture \/ ReleaseUnbound

Next == Main \/ AudioDetected

Spec == Init /\ [][Next]_vars

\* main() is a running thread: whenever it has a next statement it executes it
FairSpec == Spec /\ WF_vars(Main)

\* ------------------------------------------- ReportGenerator on its own
\* Every violation list of at most MaxLen records, of known and unknown types,
\* stamped by a clock that advances between records, with generate_report
\* applied to it (format 'pdf', every collaborator succeeding).
InitStats ==
    /\ pc = "stats"
    /\ config = [audio_monitoring |-> FALSE, screen_recording |-> FALSE]
    /\ audio_active = FALSE
    /\ audio_count = 0
    /\ screen = "idle"
    /\ video = "idle"
    /\ cap = "unbound"
    /\ source_pos = 0
    /\ frame_count = 0
    /\ results = NoResults
    /\ pending = <<>>
    /\ timestamp = NoTimestamp
    /\ violations = <<>>
    /\ frames_recorded = 0
    /\ error = "none"
    /\ clock = 0
    /\ report_calls = 1
    /\ report_input = <<>>
    /\ report_path = NoPath
    /\ report = generate_report(student_info, <<>>, "pdf", 0, AllOk)
    /\ overlay = NoOverlay
    /\ detector_calls = NoCalls

StatsAppend ==
    /\ pc = "stats"
    /\ Len(violations) < MaxLen
    /\ clock' = clock + 600000
    /\ \E t \in AllTypes :
         violations' = Append(violations,
                              ViolationRecord(t, strftime(clock', CompactFormat), 0))
    /\ report' = generate_report(student_info, violations', "pdf", clock', AllOk)
    /\ UNCHANGED <<pc, config, audio_active, audio_count, screen, video, cap,
                   source_pos, frame_count, results, pending, timestamp,
                   frames_recorded, error, report_calls, report_input, report_path,
                   overlay, detector_calls>>

NextStats == StatsAppend

StatsSpec == InitStats /\ [][NextStats]_vars

\* ------------------------------------- generate_report and its collaborators
\* the violation types of the lists of ReportSpec: two known ones of different
\* weight and the unknown one
ReportTypes == {"FACE_DISAPPEARED", "MOUTH_MOVING", UnknownType}

\* the format values callers pass: the two formats in both cases, and the value
\* main() passes
OutputFormats == {"pdf", "PDF", "html", "HTML", MainOutputFormat}

\* Every violation list of at most MaxReportLen records, each stamped either in
\* the format the frame loop writes or in the display format (which
\* _generate_timeline cannot parse), then one call of generate_report with every
\* format value and every outcome of its collaborators.
InitReport ==
    /\ pc = "report_input"
    /\ config = [audio_monitoring |-> FALSE, screen_recording |-> FALSE]
    /\ audio_active = FALSE
    /\ audio_count = 0
    /\ screen = "idle"
    /\ video = "idle"
    /\ cap = "unbound"
    /\ source_pos = 0
    /\ frame_count = 0
    /\ results = NoResults
    /\ pending = <<>>
    /\ timestamp = NoTimestamp
    /\ violations = <<>>
    /\ frames_recorded = 0
    /\ error = "none"
    /\ clock = 0
    /\ report_calls = 0
    /\ report_input = <<>>
    /\ report_path = NoPath
    /\ report = NoReport
    /\ overlay = NoOverlay
    /\ detector_calls = NoCalls

\* the caller builds the list it will pass
ReportAppend ==
    /\ pc = "report_input"
    /\ Len(violations) < MaxReportLen
    /\ clock' = clock + 600000
    /\ \E t \in ReportTypes, fmt \in {CompactFormat, DisplayFormat} :
         violations' = Append(violations, ViolationRecord(t, strftime(clock', fmt), 0))
    /\ UNCHANGED <<pc, config, audio_active, audio_count, screen, video, cap,
                   source_pos, frame_count, results, pending, timestamp,
                   frames_recorded, error, report_calls, report_input, report_path,
                   report,
                   overlay, detector_calls>>

\* generate_report(student_info, violations, output_format) (lines 34-78)
ReportGenerate ==
    /\ pc = "report_input"
    /\ \E output_format \in OutputFormats, io \in ReportIO :
         report' = generate_report(student_info, violations, output_format, clock, io)
    /\ report_input' = violations
    /\ report_path' = report'.path
    /\ report_calls' = report_calls + 1
    /\ error' = IF report'.path.raised THEN "report" ELSE error
    /\ pc' = "report_done"
    /\ UNCHANGED <<config, audio_active, audio_count, screen, video, cap, source_pos,
                   frame_count, results, pending, timestamp, violations,
                   frames_recorded, clock, overlay, detector_calls>>

NextReport == ReportAppend \/ ReportGenerate

ReportSpec == InitReport /\ [][NextReport]_vars

\* ------------------------------------------- display_detection_results
\* eye-openness ratios around the threshold of line 40, in hundredths
EyeRatios == {24, 25, 26, 30}

\* the snapshots handed to display_detection_results: every combination of the
\* detector results, with ratios below, at and above the threshold
DisplaySnapshots ==
    [face_present : BOOLEAN, gaze_direction : {"Center", "Left", "Right"},
     eye_ratio : EyeRatios, mouth_moving : BOOLEAN, multiple_faces : BOOLEAN,
     objects_detected : BOOLEAN, timestamp : {strftime(0, DisplayFormat)}]

InitDisplay ==
    /\ pc = "display_input"
    /\ config = [audio_monitoring |-> FALSE, screen_recording |-> FALSE]
    /\ audio_active = FALSE
    /\ audio_count = 0
    /\ screen = "idle"
    /\ video = "idle"
    /\ cap = "unbound"
    /\ source_pos = 0
    /\ frame_count = 0
    /\ results \in DisplaySnapshots
    /\ pending = <<>>
    /\ timestamp = NoTimestamp
    /\ violations = <<>>
    /\ frames_recorded = 0
    /\ error = "none"
    /\ clock = 0
    /\ report_calls = 0
    /\ report_input = <<>>
    /\ report_path = NoPath
    /\ report = NoReport
    /\ overlay = NoOverlay
    /\ detector_calls = NoCalls

\* display_detection_results(frame, results) (lines 33-59)
DisplayResults ==
    /\ pc = "display_input"
    /\ overlay' = display_detection_results(results)
    /\ pc' = "displayed"
    /\ UNCHANGED <<config, audio_active, audio_count, screen, video, cap, source_pos,
                   frame_count, results, pending, timestamp, violations,
                   frames_recorded, error, clock, report_calls, report_input,
                   report_path, report, detector_calls>>

NextDisplay == DisplayResults

DisplaySpec == InitDisplay /\ [][NextDisplay]_vars

\* =================================================================== claims
\* indices of the log records the frame loop appended while handling frame k
RecordsOfFrame(k) == {i \in 1..Len(violations) : violations[i].frame = k}

\* indices of the log records the frame loop appended
FrameLoopRecords == {i \in 1..Len(violations) : violations[i].frame # 0}

\* C1: the frame loop logs at most one violation record per frame, whatever
\* combination of the four conditions holds, so the frame-loop records in the
\* log never outnumber the frames processed.
C1_AtMostOneRecordPerFrame ==
    /\ \A k \in 1..source_pos : Cardinality(RecordsOfFrame(k)) <= 1
    /\ Cardinality(FrameLoopRecords) <= source_pos

\* a frame with all four conditions true has been handled and has one record
C1_Witness ==
    /\ pc = "display"
    /\ ~results.face_present /\ results.multiple_faces
    /\ results.objects_detected /\ results.mouth_moving
    /\ Cardinality(RecordsOfFrame(source_pos)) = 1

\* the first true condition in the order FaceDisappeared, MultipleFaces,
\* ObjectDetected, MouthMoving, or "none"
FirstMatch(r) ==
    IF ~r.face_present THEN "FACE_DISAPPEARED"
    ELSE IF r.multiple_faces THEN "MULTIPLE_FACES"
    ELSE IF r.objects_detected THEN "OBJECT_DETECTED"
    ELSE IF r.mouth_moving THEN "MOUTH_MOVING"
    ELSE "none"

\* C2: classification is first-match-wins in the order FaceDisappeared,
\* MultipleFaces, ObjectDetected, MouthMoving: once a frame's violations are
\* handled, the types logged for it are exactly the first true condition, and
\* nothing when all four are false; while it is being handled, the type in hand
\* is that first condition.
C2_FirstMatchWins ==
    /\ pc \in {"speak", "capture", "log"} => pending = <<FirstMatch(results)>>
    /\ pc \in {"display", "waitkey"} =>
         {violations[i].type : i \in RecordsOfFrame(source_pos)}
           = (IF FirstMatch(results) = "none" THEN {} ELSE {FirstMatch(results)})

\* face absent and multiple faces in one frame, logged as FACE_DISAPPEARED
C2_Witness ==
    /\ pc = "display"
    /\ ~results.face_present /\ results.multiple_faces
    /\ \E i \in RecordsOfFrame(source_pos) : violations[i].type = "FACE_DISAPPEARED"

\* the exceptions of the alert side effects
DispatchErrors == {"tts", "capture"}

\* C3: a failure of the speech alert or of the evidence capture does not affect
\* storage or the loop: the record of that frame is in the log, the frame has
\* been (or is about to be) recorded, and the frame loop is still running.
C3_DispatchFailureIsolated ==
    error \in DispatchErrors =>
        /\ pc \in LoopPcs
        /\ RecordsOfFrame(source_pos) # {}
        /\ frames_recorded >= source_pos - 1

\* the frame loop was entered and has been left
LoopStopped == cap # "unbound" /\ pc \in TeardownPcs \cup {"exit"}

\* the finally block has run to its end
TeardownComplete ==
    /\ pc = "exit"
    /\ report_calls = 1
    /\ report_path # NoPath
    /\ Len(report_input) <= Len(violations)
    /\ SubSeq(violations, 1, Len(report_input)) = report_input
    /\ config.screen_recording => screen = "stopped"
    /\ video = "stopped"
    /\ cap # "open"

\* the order of the statements of the finally block
TeardownRank(p) ==
    CASE p = "report" -> 1 [] p = "screen_stop" -> 2 [] p = "video_stop" -> 3
      [] p = "release" -> 4 [] p = "exit" -> 5 [] OTHER -> 0

\* C4: once the frame loop has stopped (quit key, no frame, or an error raised
\* inside the loop) no further frame is read, and the teardown runs to its end:
\* the report is generated from the logged violations, the screen recorder (if
\* enabled) and the video recorder are stopped, the capture device is released.
\* Running to the end is stated step by step: until main() has exited its next
\* statement can always run, every statement moves main() forward through the
\* finally block, and main() exits only with the teardown complete.
C4_TeardownAfterLoop ==
    /\ [][LoopStopped => (LoopStopped' /\ source_pos' = source_pos
                          /\ frames_recorded' = frames_recorded
                          /\ TeardownRank(pc') >= TeardownRank(pc))]_vars
    /\ [][(LoopStopped /\ Main) => TeardownRank(pc') = TeardownRank(pc) + 1]_vars
    /\ []((LoopStopped /\ pc # "exit") => ENABLED Main)
    /\ []((LoopStopped /\ pc = "exit") => TeardownComplete)

\* the same under fairness of main(): a stopped loop leads to a complete teardown
C4_LeadsTo == LoopStopped ~> TeardownComplete

\* a detector raised inside the loop and the teardown has completed
C4_Witness ==
    /\ error = "detector"
    /\ source_pos >= 1
    /\ config.screen_recording
    /\ cap = "released"
    /\ TeardownComplete

\* C5: report generation is invoked exactly once per session, and from the
\* moment the violation log is read for the report no producer appends to it:
\* the log stays equal to the list the report was generated from.
C5_NoProducerAtReport ==
    /\ report_calls <= 1
    /\ pc \in {"exit", "crashed"} => report_calls = 1
    /\ report_calls >= 1 => violations = report_input

\* ------------------------------------------------- claims on the statistics
\* number of records of type t in the violation list
CountOf(vs, t) == Cardinality({i \in 1..Len(vs) : vs[i].type = t})

\* records whose type the severity table does not list
UnknownCount(vs) == Cardinality({i \in 1..Len(vs) : vs[i].type \notin KnownTypes})

\* the sum of the documented weights over the records of known type
KnownWeightSum(vs) ==
    1 * CountOf(vs, "FACE_DISAPPEARED") + 2 * CountOf(vs, "GAZE_AWAY")
    + 3 * CountOf(vs, "MOUTH_MOVING") + 3 * CountOf(vs, "AUDIO_DETECTED")
    + 4 * CountOf(vs, "MULTIPLE_FACES") + 5 * CountOf(vs, "OBJECT_DETECTED")

\* 2 MULTIPLE_FACES, 1 OBJECT_DETECTED, 1 MOUTH_MOVING, 1 FACE_DISAPPEARED
FiveRecordExample(vs) ==
    /\ Len(vs) = 5
    /\ CountOf(vs, "MULTIPLE_FACES") = 2
    /\ CountOf(vs, "OBJECT_DETECTED") = 1
    /\ CountOf(vs, "MOUTH_MOVING") = 1
    /\ CountOf(vs, "FACE_DISAPPEARED") = 1

\* C6: for every list of records of the six listed types the severity score is
\* the sum of their fixed weights, total is the number of records and the
\* integrity score is max(0, 100 - 5 * severity score); the five-record example
\* gives severity score 17, average severity 17/5 = 3.4 and integrity score 15.
C6_SeverityAndIntegrity ==
    /\ report.stats.total = Len(violations)
    /\ UnknownCount(violations) = 0 =>
         report.stats.severity_score = KnownWeightSum(violations)
    /\ 100 - 5 * report.stats.severity_score >= 0 =>
         report.stats.integrity_score = 100 - 5 * report.stats.severity_score
    /\ 100 - 5 * report.stats.severity_score < 0 => report.stats.integrity_score = 0
    /\ FiveRecordExample(violations) =>
         /\ report.stats.severity_score = 17
         /\ ~report.stats.average_severity.raised
         /\ report.stats.average_severity.num * 10 = 34 * report.stats.average_severity.den
         /\ report.stats.integrity_score = 15

\* the five-record example has been scored
C6_Witness ==
    /\ FiveRecordExample(violations)
    /\ report.violations = violations
    /\ report.stats.severity_score = 17

\* C7: for an empty violation list the statistics are total 0, severity score 0,
\* average severity 0 and integrity score 100, and no division by zero is raised.
C7_EmptyStats ==
    violations = <<>> =>
        /\ report.stats.total = 0
        /\ report.stats.severity_score = 0
        /\ ~report.stats.raised
        /\ ~report.stats.average_severity.raised
        /\ report.stats.average_severity.num = 0
        /\ report.stats.average_severity.den # 0
        /\ report.stats.integrity_score = 100

\* the statistics of the empty list have been computed
C7_Witness ==
    /\ violations = <<>>
    /\ report.violations = <<>>
    /\ report.stats.total = 0

\* C8: along any sequence of appends the integrity score never increases when a
\* record of any type, known or unknown, is appended; it always lies in 0..100
\* and is 0 once the severity score is 20 or more.
C8_IntegrityMonotone ==
    /\ [](/\ report.stats.integrity_score \in 0..100
          /\ report.stats.severity_score >= 20 => report.stats.integrity_score = 0)
    /\ [][Len(violations') = Len(violations) + 1 =>
            report'.stats.integrity_score <= report.stats.integrity_score]_vars

\* the floor is reached by a list that holds a record of unknown type
C8_Witness ==
    /\ report.stats.severity_score >= 20
    /\ report.stats.integrity_score = 0
    /\ UnknownCount(violations) >= 1

\* the list vs with the records at i and j exchanged
Exchanged(vs, i, j) ==
    [k \in 1..Len(vs) |-> IF k = i THEN vs[j] ELSE IF k = j THEN vs[i] ELSE vs[k]]

\* the timeline of stats follows the list vs entry by entry
TimelineFollows(stats, vs) ==
    /\ Len(stats.timeline) = Len(vs)
    /\ \A k \in 1..Len(vs) :
         /\ stats.timeline[k].time = vs[k].timestamp
         /\ stats.timeline[k].type = vs[k].type

\* C9: the per-type counts, the total and the severity score are the same for
\* a record list and for every permutation of it, and the i-th timeline entry
\* carries the timestamp and type of the i-th input record. Permutations are
\* covered by exchanges of two neighbouring records, which generate them all,
\* over every list of the specification.
C9_OrderIndependence ==
    /\ TimelineFollows(report.stats, violations)
    /\ \A i \in 1..(Len(violations) - 1) :
           LET p == Exchanged(violations, i, i + 1)
               s == calculate_stats(p)
           IN  /\ DictItems(s.by_type) = DictItems(report.stats.by_type)
               /\ Len(s.by_type) = Len(report.stats.by_type)
               /\ s.total = report.stats.total
               /\ s.severity_score = report.stats.severity_score
               /\ TimelineFollows(s, p)

\* two records of different types: exchanging them changes the order in which
\* the by_type dict was filled and the timeline, not the aggregates
C9_Witness ==
    /\ Len(violations) >= 2
    /\ violations[1].type # violations[2].type
    /\ calculate_stats(Exchanged(violations, 1, 2)).by_type # report.stats.by_type
    /\ calculate_stats(Exchanged(violations, 1, 2)).timeline # report.stats.timeline

\* C10: a record whose type is not in the severity table has weight 1 in the
\* severity score, in its timeline entry and in its timeline chart point, and the
\* statistics are computed without an error.
C10_UnknownTypeWeightOne ==
    /\ ~report.stats.raised
    /\ report.stats.severity_score
         = KnownWeightSum(violations) + UnknownCount(violations)
    /\ \A i \in 1..Len(violations) :
         violations[i].type \notin KnownTypes =>
           /\ report.stats.timeline[i].severity = 1
           /\ report.timeline_image # "None"
           /\ report.timeline_chart.marks[i].severity = 1
           /\ report.timeline_chart.marks[i].label = violations[i].type

\* a list with a record of unknown type has been scored and charted
C10_Witness ==
    /\ UnknownCount(violations) >= 1
    /\ Len(violations) >= 2
    /\ report.timeline_image # "None"
    /\ report.stats.total = Len(violations)

\* ---------------------------------------------------------------- C11
\* C11: when a step of composing or exporting the document fails (the template
\* does not render, pdfkit or the file write raises), generate_report lets no
\* exception reach its caller and returns None; the list the caller passed is
\* the list the caller still holds afterwards, record for record. A report
\* whose every step succeeds returns a path.
C11_FailedReportIsolated ==
    pc = "report_done" =>
        /\ ~report.path.raised
        /\ error = "none"
        /\ report.path.ok = (report.io.render_ok /\ report.io.export_ok)
        /\ report.violations = violations
        /\ report_input = violations

\* a list of two records whose report rendered and then failed at the pdf
\* conversion
C11_Witness ==
    /\ pc = "report_done"
    /\ Len(violations) = 2
    /\ ~report.path.ok
    /\ ~report.io.export_ok
    /\ report.io.render_ok
    /\ report.branch = "pdfkit.from_string"

\* ---------------------------------------------------------------- C12
\* every timestamp of vs parses in the format _generate_timeline reads
AllParse(vs) == \A i \in 1..Len(vs) : strptime(vs[i].timestamp, CompactFormat).ok

\* C12: a chart that fails is absent and nothing else changes. The timeline is
\* produced exactly when the list is non-empty, every timestamp parses as
\* YYYYMMDD_HHMMSS_ffffff and its image is written; the heatmap exactly when the
\* list is non-empty and its image is written, whatever happened to the
\* timeline. The document is composed and exported whenever the template and
\* the export succeed, whatever happened to the charts, and has_images is true
\* exactly when at least one chart was produced.
C12_ChartFailuresIsolated ==
    pc = "report_done" =>
        /\ (report.timeline_image # "None") =
               (violations # <<>> /\ AllParse(violations) /\ report.io.timeline_ok)
        /\ (report.heatmap_image # "None") =
               (violations # <<>> /\ report.io.heatmap_ok)
        /\ report.path.ok = (report.io.render_ok /\ report.io.export_ok)
        /\ report.has_images =
               (report.timeline_image # "None" \/ report.heatmap_image # "None")
        /\ report.chart_files =
               {report.timeline_image, report.heatmap_image} \ {"None"}

\* a list with a timestamp that does not parse: no timeline, the heatmap is
\* produced, the report is exported and has_images is true
C12_Witness ==
    /\ pc = "report_done"
    /\ violations # <<>>
    /\ ~AllParse(violations)
    /\ report.io.timeline_ok
    /\ report.timeline_image = "None"
    /\ report.heatmap_image # "None"
    /\ report.has_images
    /\ report.path.ok

\* ---------------------------------------------------------------- C13
\* C13: whatever format value the caller passes, the value main() passes in its
\* finally block included, a report that was written is named
\* report_{student id}_{generation time as YYYYMMDD_HHMMSS}.{ext} with ext
\* either pdf or html, the upper-case spellings of the two formats selecting
\* the same extension as the lower-case ones.
C13_ReportFileName ==
    (report_calls >= 1 /\ report_path.ok) =>
        /\ report_path.student = student_info.id
        /\ report_path.stamp.fmt = "%Y%m%d_%H%M%S"
        /\ report_path.ext \in {"pdf", "html"}

\* ---------------------------------------------------------------- C14
\* C14: for an empty violation list neither chart method writes a file, both
\* image paths of the report data are None and has_images is false; the empty
\* list is no error: the document is still composed and exported, and
\* generate_report returns its path whenever the template and the export
\* succeed.
C14_EmptyListNoCharts ==
    (pc = "report_done" /\ report.violations = <<>>) =>
        /\ report.chart_files = {}
        /\ report.timeline_image = "None"
        /\ report.heatmap_image = "None"
        /\ ~report.has_images
        /\ ~report.path.raised
        /\ report.path.ok = (report.io.render_ok /\ report.io.export_ok)
        /\ report.stats.total = 0

\* the report of an empty list, written as a pdf with every collaborator working
C14_Witness ==
    /\ pc = "report_done"
    /\ violations = <<>>
    /\ report.io = AllOk
    /\ report.path.ok
    /\ report.path.ext = "pdf"
    /\ ~report.has_images

\* ---------------------------------------------------------------- C15
\* C15: the frame loop does not wait for the alert side effects. While the speech
\* alert or the evidence capture for the classified violation is still to
\* complete, the loop's own next steps (storing the record, recording the frame)
\* are already enabled.
C15_AlertsNotAwaited ==
    (pc \in {"speak", "capture"} /\ pending # <<>>) =>
        ENABLED (LogViolation \/ RecordFrame)

\* ---------------------------------------------------------------- C17
\* C17: when the speech alert and the screenshot capture for a frame's violation
\* are triggered, the record of that violation is already in the store.
C17_RecordStoredBeforeAlerts ==
    (pc \in {"speak", "capture"} /\ pending # <<>>) =>
        \E i \in RecordsOfFrame(source_pos) : violations[i].type = Head(pending)

\* ---------------------------------------------------------------- C16
\* the eye state written on the frame
EyesShown == overlay.status_items[3][2]

\* C16: the eye state shown is Open for every ratio at or above the threshold
\* 0.25, the ratio exactly equal to it included, and Closed only strictly below.
C16_ThresholdIsOpen ==
    pc = "displayed" =>
        /\ results.eye_ratio >= EyeThreshold => EyesShown = "Open"
        /\ results.eye_ratio < EyeThreshold => EyesShown = "Closed"

\* C16 (amended): the eye state shown is Open only for ratios strictly above the
\* threshold 0.25; the ratio exactly equal to it, like every ratio below, is
\* shown as Closed.
C16_ThresholdIsClosed ==
    pc = "displayed" =>
        /\ results.eye_ratio > EyeThreshold => EyesShown = "Open"
        /\ results.eye_ratio <= EyeThreshold => EyesShown = "Closed"
        /\ overlay.status_items[3][1] = "Eyes"

\* a frame whose ratio is exactly the threshold, displayed as Closed
C16_Witness ==
    /\ pc = "displayed"
    /\ results.eye_ratio = EyeThreshold
    /\ EyesShown = "Closed"

\* ---------------------------------------------------------------- C18
\* the calls of the detector methods on the current frame are each complete
AllDetectorsCalledOnce == \A d \in DetectorPcs : detector_calls[d] = 1

C19_TeardownAfterSetupError ==
    (cap = "unbound" /\ pc \notin SetupPcs \cup {"audio_start"}) =>
        /\ error = "setup"
        /\ pc \in TeardownPcs \cup {"exit"}
        /\ pc = "exit" => (report_calls = 1 /\ video = "stopped")

\* ---------------------------------------------------------------- C20
\* the sum of the counts of a by_type dictionary from item i on
RECURSIVE SumOfCounts(_, _)
SumOfCounts(by_type, i) ==
    IF i > Len(by_type) THEN 0 ELSE by_type[i].value + SumOfCounts(by_type, i + 1)

\* C20: the statistics of a report agree with each other: the per-type counts
\* add up to the total, the timeline has exactly total entries, every type in
\* the per-type counts is listed once and has a count of at least 1, and the
\* severity score lies between total and 5 * total.
C20_StatsConsistent ==
    LET stats == report.stats
    IN  /\ stats.total = Len(report.violations)
        /\ SumOfCounts(stats.by_type, 1) = stats.total
        /\ Len(stats.timeline) = stats.total
        /\ \A i \in 1..Len(stats.by_type) : stats.by_type[i].value >= 1
        /\ \A i, j \in 1..Len(stats.by_type) :
             stats.by_type[i].key = stats.by_type[j].key => i = j
        /\ \A i \in 1..Len(stats.by_type) :
             stats.by_type[i].value = CountOf(report.violations, stats.by_type[i].key)
        /\ stats.total <= stats.severity_score
        /\ stats.severity_score <= 5 * stats.total

\* four records of two types, one of them of the heaviest weight and one
\* unknown to the severity table
C20_Witness ==
    /\ Len(violations) = 4
    /\ report.violations = violations
    /\ CountOf(violations, "OBJECT_DETECTED") = 3
    /\ CountOf(violations, UnknownType) = 1
    /\ Len(report.stats.by_type) = 2
    /\ report.stats.severity_score = 16

====
